---- MODULE Spec2Model ----
(***************************************************************************)
(* Model of the waypoint updater node                                      *)
(* (ros/src/waypoint_updater/waypoint_updater.py).                         *)
(*                                                                         *)
(* Encodings                                                               *)
(*  - Lengths are integers in units of 0.005 m.  A distance is encoded by  *)
(*    its square (sqrt is strictly increasing, and the source only ever    *)
(*    compares distances), so MIN_UPDATE_DIST = 0.01 m = 2 units is the    *)
(*    encoded distance 4.                                                  *)
(*  - Angles are encoded in sectors of the circle: the even code 2k is the *)
(*    angle k*pi/4 exactly, the odd code 2k+1 is any angle strictly        *)
(*    between k*pi/4 and (k+1)*pi/4.  pi/2 is 4, pi is 8, 2*pi is 16.      *)
(*    Vehicle yaws are multiples of pi/4 (even codes), so that a           *)
(*    difference yaw - heading is again a code and every comparison with   *)
(*    pi/2 and pi is exact.                                                *)
(*  - An orientation is a rotation about the z axis, a Quaternion object  *)
(*    that holds its yaw.                                                  *)
(*  - Indices are 0-based as in the source; sequences are 1-based.         *)
(*  - self.waypoints and self.final_waypoints.waypoints are lists of       *)
(*    references to Waypoint objects.  No handler writes to a Waypoint     *)
(*    object, so a reference is the key of the object in the fixed heap    *)
(*    Objects; key 0 stands for the objects Waypoint() creates.            *)
(***************************************************************************)
EXTENDS Integers, Sequences, FiniteSets

\* ------------------------------------------------------------------------
\* Constants of the source
\* ------------------------------------------------------------------------
LOOKAHEAD_WPS == 200
POSE_QUEUE_SIZE == 50
VERBOSE == 1
MIN_UPDATE_DIST == 4
WP_UNDEFINED == -1
\* sys.float_info.max: larger than every encoded distance
FLOAT_MAX == 1000000000
\* math.pi / 2, math.pi and 2 * math.pi as sector codes
HALF_PI == 4
PI == 8
TWO_PI == 16

\* ------------------------------------------------------------------------
\* Bounds of the model
\* ------------------------------------------------------------------------
\* number of /current_pose messages delivered in a run
MaxPoses == 2
\* number of /current_pose messages delivered in a run of SpecGeo
MaxGeoPoses == 1
\* number of /current_pose messages delivered in a run of SpecQueue, and how
\* many of them the halted vehicle sends
MaxQueuePoses == 52
MaxRejected == 1

\* ------------------------------------------------------------------------
\* Messages
\* ------------------------------------------------------------------------
Point(x, y, z) == [x |-> x, y |-> y, z |-> z]

\* geometry_msgs/Quaternion of a rotation about the z axis
Quaternion(yaw) == [yaw |-> yaw]

\* geometry_msgs/PoseStamped
NewPoseStamped(position, yaw, stamp) ==
    [type |-> "PoseStamped",
     header |-> [stamp |-> stamp],
     pose |-> [position |-> position, orientation |-> Quaternion(yaw)]]

\* styx_msgs/Waypoint; twist is the stored target velocity
NewWaypoint(position, twist) ==
    [type |-> "Waypoint",
     pose |-> [pose |-> [position |-> position,
                       orientation |-> Quaternion(0)]],
     twist |-> twist]

\* PoseStamped() and Waypoint(): every field zero
PoseStamped == NewPoseStamped(Point(0, 0, 0), 0, 0)
Waypoint == NewWaypoint(Point(0, 0, 0), 0)

\* The Waypoint objects of a run: key -> object
Objects ==
    <<NewWaypoint(Point(0, 0, 0), 5),
      NewWaypoint(Point(0, 0, 0), 10), NewWaypoint(Point(20, 0, 0), 11),
      NewWaypoint(Point(20, 20, 0), 12), NewWaypoint(Point(0, 20, 0), 13),
      NewWaypoint(Point(20, 0, 0), 20), NewWaypoint(Point(0, 0, 0), 21),
      NewWaypoint(Point(0, 0, 0), 22)>>

\* the object a reference points to; the keys above those of Objects are the
\* LOOKAHEAD_WPS + 1 waypoints of a long track that ends at the origin,
\* 0.05 m apart
Object(ref) ==
    IF ref = 0 THEN Waypoint
    ELSE IF ref <= Len(Objects) THEN Objects[ref]
    ELSE NewWaypoint(
             Point((LOOKAHEAD_WPS + 1 + Len(Objects) - ref) * 10, 0, 0), ref)

\* seq[i] of a Python list
At(seq, i) == seq[i + 1]

\* ------------------------------------------------------------------------
\* Helpers of the node
\* ------------------------------------------------------------------------
\* what a call yields when its assert 0 fails: the exception, not a value
AssertionError == [raised |-> "AssertionError"]

get_position_mut(obj) ==
    IF obj.type = "PoseStamped" THEN obj.pose.position
    ELSE IF obj.type = "Waypoint" THEN obj.pose.pose.position
    ELSE Point(0, 0, 0)

get_position(obj) ==
    IF obj.type = "PoseStamped" THEN obj.pose.position
    ELSE IF obj.type = "Waypoint" THEN obj.pose.pose.position
    ELSE AssertionError

get_orientation(obj) ==
    IF obj.type = "PoseStamped" THEN obj.pose.orientation
    ELSE IF obj.type = "Waypoint" THEN obj.pose.pose.orientation
    ELSE AssertionError

\* Euclidean distance (encoded by its square)
distance(p1, p2) ==
    (p1.x - p2.x) * (p1.x - p2.x)
    + (p1.y - p2.y) * (p1.y - p2.y)
    + (p1.z - p2.z) * (p1.z - p2.z)

check_waypoint_index_mut(wp_index, waypoints) ==
    wp_index >= 0 /\ wp_index <= Len(waypoints)

\* TRUE when the assert passes
check_waypoint_index(wp_index, waypoints) ==
    wp_index >= 0 /\ wp_index < Len(waypoints)

\* math.atan2(y, x) for integer y, x, as a sector code in -8 .. 8
atan2_pos(y, x) ==
    \* y > 0
    IF x = 0 THEN 4
    ELSE IF x > 0 THEN (IF y < x THEN 1 ELSE IF y = x THEN 2 ELSE 3)
    ELSE (IF y > -x THEN 5 ELSE IF y = -x THEN 6 ELSE 7)

atan2(y, x) ==
    IF y = 0 THEN (IF x >= 0 THEN 0 ELSE PI)
    ELSE IF y > 0 THEN atan2_pos(y, x)
    ELSE -atan2_pos(-y, x)

\* math.fmod(a, m), m > 0: the result has the sign of a
fmod(a, m) == IF a >= 0 THEN a % m ELSE -((-a) % m)

\* math.fabs
fabs(a) == IF a >= 0 THEN a ELSE -a

\* tf.transformations.euler_from_quaternion: (roll, pitch, yaw)
euler_from_quaternion(q) == <<0, 0, q.yaw>>

deque_append_mut(queue, item) ==
    IF Len(queue) < POSE_QUEUE_SIZE THEN Append(queue, item)
    ELSE Append(SubSeq(queue, 1, Len(queue) - 1), item)

\* collections.deque(maxlen = POSE_QUEUE_SIZE).append
deque_append(queue, item) ==
    IF Len(queue) < POSE_QUEUE_SIZE THEN Append(queue, item)
    ELSE Append(Tail(queue), item)

\* ------------------------------------------------------------------------
\* publish_waypoints
\* ------------------------------------------------------------------------
track_set_mut(waypoints) == TRUE

\* assert len(self.waypoints), "Track waypoints not set"
track_set(waypoints) == Len(waypoints) # 0

closer_mut(dist, closest_dist) == dist <= closest_dist

\* if (dist < closest_dist)
closer(dist, closest_dist) == dist < closest_dist

\* one iteration of: for i, wp in enumerate(self.waypoints)
closest_step(i, closest, ego_pos, waypoints) ==
    LET dist == distance(ego_pos, get_position(Object(At(waypoints, i))))
    IN IF closer(dist, closest.closest_dist)
       THEN [closest_id |-> i, closest_dist |-> dist]
       ELSE closest

\* iterations i .. j-1 of the scan, in order (first half, then second half)
RECURSIVE closest_scan(_, _, _, _, _)
closest_scan(i, j, closest, ego_pos, waypoints) ==
    IF j <= i THEN closest
    ELSE IF j = i + 1 THEN closest_step(i, closest, ego_pos, waypoints)
    ELSE LET mid == (i + j) \div 2
             half == closest_scan(i, mid, closest, ego_pos, waypoints)
         IN \* closest_id is never negative: the test only makes TLC evaluate
            \* the first half before it enters the second
            IF half.closest_id >= 0
            THEN closest_scan(mid, j, half, ego_pos, waypoints)
            ELSE half

\* closest_id = 0; closest_dist = sys.float_info.max; the scan
closest_waypoint(ego_pos, waypoints) ==
    closest_scan(0, Len(waypoints),
                 [closest_id |-> 0, closest_dist |-> FLOAT_MAX],
                 ego_pos, waypoints)

\* heading = fmod(atan2(dy, dx) + 2 * pi, 2 * pi)
heading_to(ego_pos, pos_closest) ==
    fmod(atan2(pos_closest.y - ego_pos.y, pos_closest.x - ego_pos.x) + TWO_PI,
         TWO_PI)

\* ego_yaw = fmod(ego_yaw + 2 * pi, 2 * pi)
normalized_yaw(ego_yaw) == fmod(ego_yaw + TWO_PI, TWO_PI)

\* angle = fabs(ego_yaw - heading); if (angle > pi): angle = 2 * pi - angle
folded_angle(ego_yaw, heading) ==
    LET angle == fabs(ego_yaw - heading)
    IN IF angle > PI THEN TWO_PI - angle ELSE angle

behind_mut(angle) == angle >= HALF_PI

\* if (angle > math.pi / 2): the waypoint is behind the vehicle
behind(angle) == angle > HALF_PI

\* first_id after the front/behind check
select_first(closest_id, angle, waypoints) ==
    IF behind(angle) THEN (closest_id + 1) % Len(waypoints) ELSE closest_id

\* one iteration of: for i in range(LOOKAHEAD_WPS): the entry it assigns to
\* self.final_waypoints.waypoints[i], and first_id after it
window_step(i, first_id, waypoints) ==
    [assigned |-> <<At(waypoints, first_id)>>,
     first_id |-> (first_id + 1) % Len(waypoints)]

\* iterations i .. j-1 of the loop, in order (first half, then second half):
\* the entries they assign to indices i .. j-1, and first_id after them
RECURSIVE window_loop(_, _, _, _)
window_loop(i, j, first_id, waypoints) ==
    IF j <= i THEN [assigned |-> << >>, first_id |-> first_id]
    ELSE IF j = i + 1 THEN window_step(i, first_id, waypoints)
    ELSE LET mid == (i + j) \div 2
             half == window_loop(i, mid, first_id, waypoints)
             rest == window_loop(mid, j, half.first_id, waypoints)
         IN [assigned |-> half.assigned \o rest.assigned,
             first_id |-> rest.first_id]

\* list l after l[i] = assigned[i] for every index i of assigned
assign_from(l, assigned) ==
    [k \in 1..Len(l) |-> IF k <= Len(assigned) THEN assigned[k] ELSE l[k]]

next_waypoints_mut(first_id, final, waypoints) ==
    assign_from(final,
                window_loop(0, Len(waypoints), first_id, waypoints).assigned)

\* the list of next waypoints written into self.final_waypoints.waypoints
next_waypoints(first_id, final, waypoints) ==
    assign_from(final,
                window_loop(0, LOOKAHEAD_WPS, first_id, waypoints).assigned)

window_stamp_mut(ego_pose, final_waypoints) == final_waypoints.header.stamp

\* self.final_waypoints.header.stamp = self.ego_pose.header.stamp
window_stamp(ego_pose, final_waypoints) == ego_pose.header.stamp

\* What one handler run writes to the log, and how it ended
NoLog ==
    [op |-> "init", outcome |-> "ok", pose |-> PoseStamped, data |-> 0,
     validated |-> FALSE, dist_travelled |-> 0, n |-> 0,
     closest_id |-> 0, closest_dist |-> 0, heading |-> 0, ego_yaw |-> 0,
     angle |-> 0, first_id |-> 0]

\* publish_waypoints with self.waypoints, self.ego_pose, self.final_waypoints:
\* how it ends, what it logs, the new self.final_waypoints
publish_waypoints(waypoints, ego_pose, final_waypoints) ==
    IF ~track_set(waypoints)
    THEN [outcome |-> "AssertionError", log |-> NoLog,
          final_waypoints |-> final_waypoints]
    ELSE
    LET ego_pos == get_position(ego_pose)
        closest == closest_waypoint(ego_pos, waypoints)
        closest_id == closest.closest_id
    IN  \* self.waypoints[closest_id] of an empty list
        IF closest_id >= Len(waypoints)
        THEN [outcome |-> "IndexError", log |-> NoLog,
              final_waypoints |-> final_waypoints]
        ELSE
        LET ego_orient == get_orientation(ego_pose)
            yaw == euler_from_quaternion(ego_orient)[3]
            pos_closest == get_position(Object(At(waypoints, closest_id)))
            heading == heading_to(ego_pos, pos_closest)
            ego_yaw == normalized_yaw(yaw)
            angle == folded_angle(ego_yaw, heading)
            first_id == select_first(closest_id, angle, waypoints)
        IN [outcome |-> "ok",
            log |-> [NoLog EXCEPT !.n = Len(waypoints),
                                  !.closest_id = closest_id,
                                  !.closest_dist = closest.closest_dist,
                                  !.heading = heading,
                                  !.ego_yaw = ego_yaw,
                                  !.angle = angle,
                                  !.first_id = first_id],
            final_waypoints |->
                [header |-> [stamp |-> window_stamp(ego_pose, final_waypoints)],
                 waypoints |-> next_waypoints(first_id,
                                              final_waypoints.waypoints,
                                              waypoints)]]

\* ------------------------------------------------------------------------
\* State of the node and of its topics
\* ------------------------------------------------------------------------
VARIABLES
    ego_pose,          \* self.ego_pose
    ego_pose_queue,    \* self.ego_pose_queue
    waypoints,         \* self.waypoints
    wp_traffic_light,  \* self.wp_traffic_light
    wp_obstacle,       \* self.wp_obstacle
    final_waypoints,   \* self.final_waypoints
    v_max,             \* self.v_max
    published,         \* number of messages sent to the 'final_waypoints' topic
    clock,             \* /current_pose messages delivered so far
    log,               \* the last handler run: its message, its log, its end
    last_pose,         \* the last /current_pose message and what became of it
    running            \* the publish_waypoints call in progress, if any

vars == <<ego_pose, ego_pose_queue, waypoints, wp_traffic_light, wp_obstacle,
          final_waypoints, v_max, published, clock, log, last_pose, running>>

\* styx_msgs/Lane
Lane(stamp, wps) == [header |-> [stamp |-> stamp], waypoints |-> wps]

\* no publish_waypoints call in progress; otherwise its local variable
\* first_id and the index i its loop over range(LOOKAHEAD_WPS) has reached
NoCall == [active |-> FALSE, first_id |-> 0, i |-> 0]

\* State after __init__, before rospy.spin() delivers a message
Init ==
    /\ ego_pose = PoseStamped
    /\ ego_pose_queue = << >>
    /\ waypoints = << >>
    /\ wp_traffic_light = WP_UNDEFINED
    /\ wp_obstacle = WP_UNDEFINED
    /\ final_waypoints = Lane(0, [i \in 1..LOOKAHEAD_WPS |-> 0])
    /\ v_max = 0
    /\ published = 0
    /\ clock = 0
    /\ log = NoLog
    /\ last_pose = [seen |-> FALSE, pose |-> PoseStamped, accepted |-> FALSE,
                    published |-> FALSE]
    /\ running = NoCall

update_needed_gt(dist_travelled) == dist_travelled > MIN_UPDATE_DIST

update_needed_always(dist_travelled) == TRUE

update_needed_low(dist_travelled) == ~(dist_travelled < MIN_UPDATE_DIST - 1)

\* if (dist_travelled < MIN_UPDATE_DIST): return
update_needed(dist_travelled) == ~(dist_travelled < MIN_UPDATE_DIST)

pose_cb(msg) ==
    LET dist_travelled == distance(get_position(msg), get_position(ego_pose))
    IN IF ~update_needed(dist_travelled)
       THEN /\ log' = [NoLog EXCEPT !.op = "pose_cb", !.outcome = "return",
                                    !.pose = msg,
                                    !.dist_travelled = dist_travelled]
            /\ last_pose' = [seen |-> TRUE, pose |-> msg, accepted |-> FALSE,
                             published |-> FALSE]
            /\ UNCHANGED <<ego_pose, ego_pose_queue, waypoints,
                           wp_traffic_light, wp_obstacle, final_waypoints,
                           v_max, published, running>>
       ELSE LET r == publish_waypoints(waypoints, msg, final_waypoints)
            IN /\ ego_pose' = msg
               /\ ego_pose_queue' = deque_append(ego_pose_queue, msg)
               /\ final_waypoints' = r.final_waypoints
               \* self.final_waypoints_pub.publish(self.final_waypoints)
               /\ published' =
                      IF r.outcome = "ok" THEN published + 1 ELSE published
               /\ log' = [r.log EXCEPT !.op = "pose_cb",
                                       !.outcome = r.outcome,
                                       !.pose = msg,
                                       !.dist_travelled = dist_travelled]
               /\ last_pose' = [seen |-> TRUE, pose |-> msg, accepted |-> TRUE,
                                published |-> r.outcome = "ok"]
               /\ UNCHANGED <<waypoints, wp_traffic_light, wp_obstacle, v_max,
                              running>>

\* rospy.get_param('/waypoint_loader/velocity') / 3.6, km/h to m/s
kmh_to_ms(velocity) == (velocity * 10) \div 36

waypoints_cb(msg, velocity) ==
    /\ waypoints' = msg.waypoints
    /\ v_max' = kmh_to_ms(velocity)
    /\ log' = [NoLog EXCEPT !.op = "waypoints_cb", !.n = Len(msg.waypoints)]
    /\ UNCHANGED <<ego_pose, ego_pose_queue, wp_traffic_light, wp_obstacle,
                   final_waypoints, published, last_pose, running>>

\* The part shared by traffic_cb and obstacle_cb after the index is stored:
\* how the handler ends, and whether check_waypoint_index was called
overlay_update(op, data, wps) ==
    IF data # WP_UNDEFINED
    THEN IF ~check_waypoint_index(data, wps)
         THEN [NoLog EXCEPT !.op = op, !.data = data, !.validated = TRUE,
                            !.outcome = "AssertionError"]
         \* self.waypoint is no attribute of the node
         ELSE IF VERBOSE # 0
              THEN [NoLog EXCEPT !.op = op, !.data = data, !.validated = TRUE,
                                 !.outcome = "AttributeError"]
              ELSE [NoLog EXCEPT !.op = op, !.data = data, !.validated = TRUE]
    ELSE [NoLog EXCEPT !.op = op, !.data = data]

traffic_cb_mut(msg) ==
    /\ wp_traffic_light' = msg.data
    /\ ego_pose' = PoseStamped
    /\ log' = overlay_update("traffic_cb", msg.data, waypoints)
    /\ UNCHANGED <<ego_pose_queue, waypoints, wp_obstacle, final_waypoints,
                   v_max, published, last_pose, running>>

traffic_cb(msg) ==
    /\ wp_traffic_light' = msg.data
    /\ log' = overlay_update("traffic_cb", msg.data, waypoints)
    /\ UNCHANGED <<ego_pose, ego_pose_queue, waypoints, wp_obstacle,
                   final_waypoints, v_max, published, last_pose, running>>

obstacle_cb(msg) ==
    /\ wp_obstacle' = msg.data
    /\ log' = overlay_update("obstacle_cb", msg.data, waypoints)
    /\ UNCHANGED <<ego_pose, ego_pose_queue, waypoints, wp_traffic_light,
                   final_waypoints, v_max, published, last_pose, running>>

\* ------------------------------------------------------------------------
\* Messages the topics deliver
\* ------------------------------------------------------------------------
\* one waypoint; the square of the specification's scenarios, 0.1 m a side;
\* a track with two waypoints at the same place; a track longer than the
\* window
Track1 == <<1>>
Square == <<2, 3, 4, 5>>
Twins == <<6, 7, 8>>
Long == [i \in 1..(LOOKAHEAD_WPS + 1) |-> Len(Objects) + i]

Tracks == {Track1, Square}
WinTracks == {Track1, Square, Long}
\* positions within 0.01 m of the origin and of each other, and at exactly
\* 0.01 m: (0,0,0)-(2,0,0) and (2,0,0)-(4,0,0)
Poses ==
    {[position |-> Point(1, 1, 1), yaw |-> 0],
     [position |-> Point(2, 0, 0), yaw |-> PI],
     [position |-> Point(4, 0, 0), yaw |-> 0]}
OverlayData == {-2, WP_UNDEFINED, 0, 4}
Velocities == {36}

GeoTracks == {Track1, Square, Twins}
GeoPositions ==
    {Point(2, 0, 0), Point(10, 0, 0), Point(10, 10, 1), Point(18, 1, 0),
     Point(21, 0, 0), Point(20, 20, 0), Point(20, 23, 0), Point(1, 19, 1)}
GeoYaws == {-6, -HALF_PI, 0, 2, HALF_PI, PI}

\* ------------------------------------------------------------------------
\* Specifications
\* ------------------------------------------------------------------------
PoseEvent ==
    \E p \in Poses :
        /\ clock < MaxPoses
        /\ clock' = clock + 1
        /\ pose_cb(NewPoseStamped(p.position, p.yaw, clock + 1))

WaypointsEvent ==
    \E track \in Tracks, velocity \in Velocities :
        /\ waypoints_cb(Lane(0, track), velocity)
        /\ UNCHANGED clock

TrafficEvent ==
    \E data \in OverlayData :
        /\ traffic_cb([data |-> data])
        /\ UNCHANGED clock

ObstacleEvent ==
    \E data \in OverlayData :
        /\ obstacle_cb([data |-> data])
        /\ UNCHANGED clock

Next == PoseEvent \/ WaypointsEvent \/ TrafficEvent \/ ObstacleEvent

Spec == Init /\ [][Next]_vars

\* The track is delivered once, before the poses, which lie anywhere around it
GeoWaypointsEvent ==
    \E track \in GeoTracks, velocity \in Velocities :
        /\ waypoints = << >>
        /\ waypoints_cb(Lane(0, track), velocity)
        /\ UNCHANGED clock

GeoPoseEvent ==
    \E position \in GeoPositions, yaw \in GeoYaws :
        /\ waypoints # << >>
        /\ clock < MaxGeoPoses
        /\ clock' = clock + 1
        /\ pose_cb(NewPoseStamped(position, yaw, clock + 1))

NextGeo == GeoWaypointsEvent \/ GeoPoseEvent

SpecGeo == Init /\ [][NextGeo]_vars

\* Track deliveries and poses only, with a track longer than the window
WinWaypointsEvent ==
    \E track \in WinTracks, velocity \in Velocities :
        /\ waypoints_cb(Lane(0, track), velocity)
        /\ UNCHANGED clock

NextWin == WinWaypointsEvent \/ PoseEvent

SpecWin == Init /\ [][NextWin]_vars

\* The track is delivered once, then the vehicle drives along the x axis and
\* halts at most once: each pose lies QueueSteps beyond the last accepted
\* pose, at less than MIN_UPDATE_DIST (1 unit, the halted vehicle) or at
\* exactly MIN_UPDATE_DIST (2 units)
QueueSteps == {1, 2}

QueueWaypointsEvent ==
    \E velocity \in Velocities :
        /\ waypoints = << >>
        /\ waypoints_cb(Lane(0, Track1), velocity)
        /\ UNCHANGED clock

QueuePoseEvent ==
    \E step \in QueueSteps :
        /\ waypoints # << >>
        /\ clock < MaxQueuePoses
        /\ step * step < MIN_UPDATE_DIST =>
               /\ clock - published < MaxRejected
               /\ clock - published > 0 => ~last_pose.accepted
        /\ clock' = clock + 1
        /\ pose_cb(NewPoseStamped(
                       Point(get_position(ego_pose).x + step, 0, 0),
                       0, clock + 1))

NextQueue == QueueWaypointsEvent \/ QueuePoseEvent

SpecQueue == Init /\ [][NextQueue]_vars

\* Calls of get_position and get_orientation with objects of the two
\* supported message types and of other types: geometry_msgs/Pose (a pose
\* without a header), geometry_msgs/Point, std_msgs/Int32, styx_msgs/Lane
ShapeTypes == {"PoseStamped", "Waypoint", "Pose", "Point", "Int32", "Lane"}

NewObject(type, position, yaw) ==
    IF type = "PoseStamped" THEN NewPoseStamped(position, yaw, 0)
    ELSE IF type = "Waypoint"
    THEN [NewWaypoint(position, 0)
             EXCEPT !.pose.pose.orientation = Quaternion(yaw)]
    ELSE IF type = "Pose"
    THEN [type |-> "Pose", position |-> position,
          orientation |-> Quaternion(yaw)]
    ELSE IF type = "Point"
    THEN [type |-> "Point", x |-> position.x, y |-> position.y,
          z |-> position.z]
    ELSE IF type = "Int32" THEN [type |-> "Int32", data |-> yaw]
    ELSE [type |-> "Lane", header |-> [stamp |-> 0], waypoints |-> << >>]

\* the call and what it yielded, kept in place of the handler log
Call(op, type, position, yaw, result) ==
    /\ log' = [op |-> op, type |-> type, position |-> position, yaw |-> yaw,
               result |-> result]
    /\ UNCHANGED <<ego_pose, ego_pose_queue, waypoints, wp_traffic_light,
                   wp_obstacle, final_waypoints, v_max, published, clock,
                   last_pose, running>>

GetPositionCall ==
    \E type \in ShapeTypes, position \in GeoPositions, yaw \in GeoYaws :
        Call("get_position", type, position, yaw,
             get_position(NewObject(type, position, yaw)))

GetOrientationCall ==
    \E type \in ShapeTypes, position \in GeoPositions, yaw \in GeoYaws :
        Call("get_orientation", type, position, yaw,
             get_orientation(NewObject(type, position, yaw)))

NextShape == GetPositionCall \/ GetOrientationCall

SpecShape == Init /\ [][NextShape]_vars

\* The callbacks of different topics on threads of their own: a delivery of
\* /base_waypoints may run while a pose_cb is inside publish_waypoints, here
\* before the loop over range(LOOKAHEAD_WPS) or at one of PreemptAt inside it.
\* pose_cb up to the loop: debounce test, pose state, assertion, scan, head
\* selection, stamp
pose_cb_begin(msg) ==
    LET dist_travelled == distance(get_position(msg), get_position(ego_pose))
    IN IF ~update_needed(dist_travelled)
       THEN pose_cb(msg)
       ELSE LET r == publish_waypoints(waypoints, msg, final_waypoints)
                ok == r.outcome = "ok"
            IN /\ ego_pose' = msg
               /\ ego_pose_queue' = deque_append(ego_pose_queue, msg)
               /\ final_waypoints' =
                      IF ok
                      THEN [final_waypoints EXCEPT
                                !.header.stamp =
                                    window_stamp(msg, final_waypoints)]
                      ELSE final_waypoints
               /\ running' =
                      IF ok
                      THEN [active |-> TRUE, first_id |-> r.log.first_id,
                            i |-> 0]
                      ELSE NoCall
               /\ log' = [r.log EXCEPT
                              !.op = "pose_cb",
                              !.outcome = IF ok THEN "running" ELSE r.outcome,
                              !.pose = msg,
                              !.dist_travelled = dist_travelled]
               /\ last_pose' = [seen |-> TRUE, pose |-> msg, accepted |-> TRUE,
                                published |-> FALSE]
               /\ UNCHANGED <<waypoints, wp_traffic_light, wp_obstacle, v_max,
                              published>>

\* the indices at which the loop over range(LOOKAHEAD_WPS) may be preempted
PreemptAt == {LOOKAHEAD_WPS \div 2}

\* iterations running.i .. m-1 of the loop, with self.waypoints as it is
\* now; after the last iteration the window is published
pose_cb_loop(m) ==
    /\ running.active
    /\ running.i < m
    /\ IF running.first_id >= Len(waypoints)
       \* self.waypoints[first_id] beyond the end of the list
       THEN /\ running' = NoCall
            /\ log' = [log EXCEPT !.op = "pose_cb", !.outcome = "IndexError",
                                  !.pose = ego_pose]
            /\ UNCHANGED <<final_waypoints, published, last_pose>>
       ELSE LET w == window_loop(running.i, m, running.first_id, waypoints)
                done == m = LOOKAHEAD_WPS
            IN /\ final_waypoints' =
                      [final_waypoints EXCEPT
                           !.waypoints =
                               [k \in 1..Len(@) |->
                                    IF running.i < k /\ k <= m
                                    THEN w.assigned[k - running.i]
                                    ELSE @[k]]]
               /\ running' = IF done THEN NoCall
                             ELSE [active |-> TRUE, first_id |-> w.first_id,
                                   i |-> m]
               \* self.final_waypoints_pub.publish(self.final_waypoints)
               /\ published' = IF done THEN published + 1 ELSE published
               /\ log' = [log EXCEPT
                              !.op = "pose_cb",
                              !.outcome = IF done THEN "ok" ELSE "running",
                              !.pose = ego_pose]
               /\ last_pose' = [last_pose EXCEPT !.published = done]
    /\ UNCHANGED <<ego_pose, ego_pose_queue, waypoints, wp_traffic_light,
                   wp_obstacle, v_max, clock>>

\* the /current_pose thread takes the next message when pose_cb has returned
RacePoseBegin ==
    \E p \in Poses :
        /\ ~running.active
        /\ clock < MaxPoses
        /\ clock' = clock + 1
        /\ pose_cb_begin(NewPoseStamped(p.position, p.yaw, clock + 1))

RacePoseLoop == \E m \in PreemptAt \cup {LOOKAHEAD_WPS} : pose_cb_loop(m)

NextRace == RacePoseBegin \/ RacePoseLoop \/ WaypointsEvent

SpecRace == Init /\ [][NextRace]_vars

\* ------------------------------------------------------------------------
\* Properties
\* ------------------------------------------------------------------------
\* the last handler run was a pose update that published a window
Recomputed == log.op = "pose_cb" /\ log.outcome = "ok"

\* C1: the window published by a pose update has exactly LOOKAHEAD_WPS
\* entries, and entry i is track[(head + i) mod N], whatever the buffer held
\* from earlier windows.
C1_Window ==
    Recomputed =>
        LET N == Len(waypoints)
        IN /\ N >= 1
           /\ DOMAIN final_waypoints.waypoints = 1..LOOKAHEAD_WPS
           /\ \A i \in 0..(LOOKAHEAD_WPS - 1) :
                  At(final_waypoints.waypoints, i)
                      = At(waypoints, (log.first_id + i) % N)

\* a second window of a run, on the square (K > N): it starts at waypoint 0
\* and wraps around to end on waypoint 3
C1_Witness ==
    /\ Recomputed
    /\ published >= 2
    /\ waypoints = Square
    /\ log.first_id = 0
    /\ At(final_waypoints.waypoints, LOOKAHEAD_WPS - 1) = At(Square, 3)

\* distance from the handled pose to waypoint j of the track
DistTo(j) ==
    distance(get_position(log.pose), get_position(Object(At(waypoints, j))))

\* C2: the nearest-waypoint scan yields an index in [0, N) at minimal
\* distance from the ego position, and the smallest such index.
C2_Nearest ==
    Recomputed =>
        /\ log.closest_id \in 0..(Len(waypoints) - 1)
        /\ log.closest_dist = DistTo(log.closest_id)
        /\ \A j \in 0..(Len(waypoints) - 1) :
               /\ DistTo(log.closest_id) <= DistTo(j)
               /\ j < log.closest_id => DistTo(log.closest_id) < DistTo(j)

\* a tie between waypoints 1 and 2, both nearer than waypoint 0
C2_Witness ==
    /\ Recomputed
    /\ log.closest_id = 1
    /\ DistTo(2) = DistTo(1)
    /\ DistTo(0) > DistTo(1)

\* unit-free direction of a yaw that is a multiple of pi/4
Dir(yaw) ==
    LET y == (yaw + TWO_PI) % TWO_PI
    IN [x |-> IF y \in {0, 2, 14} THEN 1 ELSE IF y \in {6, 8, 10} THEN -1 ELSE 0,
        y |-> IF y \in {2, 4, 6} THEN 1 ELSE IF y \in {10, 12, 14} THEN -1 ELSE 0]

\* the handled pose is at the (x, y) place of the nearest waypoint
Coincident ==
    LET c == get_position(Object(At(waypoints, log.closest_id)))
        e == get_position(log.pose)
    IN c.x = e.x /\ c.y = e.y

\* scalar product of the vehicle's direction and the direction to the
\* nearest waypoint
Ahead ==
    LET c == get_position(Object(At(waypoints, log.closest_id)))
        e == get_position(log.pose)
        d == Dir(get_orientation(log.pose).yaw)
    IN d.x * (c.x - e.x) + d.y * (c.y - e.y)

\* the head index follows the folded difference
HeadRule ==
    /\ log.heading \in 0..(TWO_PI - 1)
    /\ log.ego_yaw \in 0..(TWO_PI - 1)
    /\ log.angle \in 0..PI
    /\ log.first_id = IF log.angle > HALF_PI
                      THEN (log.closest_id + 1) % Len(waypoints)
                      ELSE log.closest_id
    /\ log.first_id \in 0..(Len(waypoints) - 1)
    /\ Len(waypoints) = 1 => log.first_id = 0

\* C3 as amended: the head index is the successor of the nearest waypoint
\* when the folded difference of yaw and bearing exceeds pi/2 (the waypoint
\* lies behind the vehicle) and the nearest waypoint otherwise, pi/2 included;
\* at the place of the nearest waypoint the bearing is atan2(0, 0) = 0 and
\* the rule is applied to the yaw alone.
C3_Head ==
    Recomputed =>
        /\ HeadRule
        /\ ~Coincident => /\ (log.angle > HALF_PI) = (Ahead < 0)
                          /\ (log.angle = HALF_PI) = (Ahead = 0)
        /\ Coincident => /\ log.heading = 0
                         /\ (log.angle > HALF_PI) = (Dir(log.ego_yaw).x < 0)

\* at the place of the nearest waypoint, facing backwards: the successor
C3_Witness ==
    /\ Recomputed
    /\ Coincident
    /\ log.angle = PI
    /\ log.closest_id = 2
    /\ log.first_id = 3

\* C3 as stated: the head is the nearest waypoint whenever the ego position
\* coincides with it.
C3_Original ==
    Recomputed => (HeadRule /\ (Coincident => log.first_id = log.closest_id))

\* the step delivers a /current_pose message (then log'.pose)
PoseStep == clock' # clock

\* distance from the delivered pose to the debounce reference self.ego_pose
Travelled == distance(get_position(log'.pose), get_position(ego_pose))

\* C4: with the track loaded, a pose update that passes the debounce filter
\* publishes exactly one window, stamped with that pose's timestamp; no other
\* step publishes or touches the window buffer.
C4_OnePerAccepted ==
    [][IF PoseStep /\ Travelled >= MIN_UPDATE_DIST /\ Len(waypoints) >= 1
       THEN /\ published' = published + 1
            /\ final_waypoints'.header.stamp = log'.pose.header.stamp
       ELSE /\ published' = published
            /\ final_waypoints' = final_waypoints]_vars

\* the second pose of a run published the first window, stamped 2
C4_Witness ==
    /\ Recomputed
    /\ published = 1
    /\ log.pose.header.stamp = 2
    /\ final_waypoints.header.stamp = 2

\* the delivered pose became the current pose and the newest history entry
Stored ==
    /\ ego_pose' = log'.pose
    /\ Len(ego_pose_queue') >= 1
    /\ ego_pose_queue'[Len(ego_pose_queue')] = log'.pose

\* C5: once a pose has been accepted, a pose update is accepted if and only
\* if it lies at least MIN_UPDATE_DIST from the last accepted pose, and two
\* consecutively accepted poses are at least MIN_UPDATE_DIST apart.
C5_Debounce ==
    [][(PoseStep /\ Len(ego_pose_queue) >= 1) =>
           LET last == ego_pose_queue[Len(ego_pose_queue)]
               d == distance(get_position(log'.pose), get_position(last))
           IN /\ (d >= MIN_UPDATE_DIST) = Stored
              /\ (d < MIN_UPDATE_DIST) =
                     (ego_pose' = ego_pose /\ ego_pose_queue' = ego_pose_queue)
              /\ \A k \in 1..(Len(ego_pose_queue') - 1) :
                     distance(get_position(ego_pose_queue'[k]),
                              get_position(ego_pose_queue'[k + 1]))
                         >= MIN_UPDATE_DIST]_vars

\* a pose at exactly MIN_UPDATE_DIST from the accepted pose before it was
\* accepted
C5_Witness ==
    /\ Len(ego_pose_queue) = 2
    /\ ego_pose = ego_pose_queue[2]
    /\ distance(get_position(ego_pose_queue[1]), get_position(ego_pose_queue[2]))
           = MIN_UPDATE_DIST

\* the delivered pose lies within MIN_UPDATE_DIST of the pose delivered
\* before it
NearLast ==
    /\ PoseStep
    /\ last_pose.seen
    /\ distance(get_position(log'.pose), get_position(last_pose.pose))
           < MIN_UPDATE_DIST

C7_RejectedFrame ==
    [][(PoseStep /\ Travelled < MIN_UPDATE_DIST) =>
           UNCHANGED <<ego_pose, ego_pose_queue, waypoints, wp_traffic_light,
                       wp_obstacle, final_waypoints, v_max, published>>]_vars

\* a pose rejected in a state that has a track, a window and a traffic index
C7_Witness ==
    /\ log.op = "pose_cb"
    /\ log.outcome = "return"
    /\ log.dist_travelled \in 1..(MIN_UPDATE_DIST - 1)
    /\ published >= 1
    /\ Len(ego_pose_queue) >= 1
    /\ wp_traffic_light = 0

\* C8: a recompute on an empty track ends in the failed assertion and
\* publishes nothing; every window is published from a track of length >= 1.
C8_EmptyTrack ==
    [][/\ (PoseStep /\ Travelled >= MIN_UPDATE_DIST /\ Len(waypoints) = 0) =>
              /\ log'.outcome = "AssertionError"
              /\ published' = published
              /\ final_waypoints' = final_waypoints
       /\ published' # published =>
              /\ Len(waypoints) >= 1
              /\ \A i \in 1..LOOKAHEAD_WPS :
                     \E j \in 1..Len(waypoints) :
                         final_waypoints'.waypoints[i] = waypoints[j]]_vars

\* a pose update before the track was loaded failed
C8_Witness ==
    /\ log.op = "pose_cb"
    /\ log.outcome = "AssertionError"
    /\ Len(waypoints) = 0
    /\ published = 0

\* the step is a run of traffic_cb or obstacle_cb (then log'.data)
OverlayStep == log'.op \in {"traffic_cb", "obstacle_cb"}

\* the index the overlay step stored
StoredIndex ==
    IF log'.op = "traffic_cb" THEN wp_traffic_light' ELSE wp_obstacle'

\* C9: traffic_cb and obstacle_cb store -1 without validating it and without
\* an error; any other negative value and any value >= N fails the
\* validation.
C9_Overlay ==
    [][OverlayStep =>
           /\ log'.data = WP_UNDEFINED =>
                  /\ ~log'.validated
                  /\ log'.outcome = "ok"
                  /\ StoredIndex = WP_UNDEFINED
           /\ (log'.data < WP_UNDEFINED \/ log'.data >= Len(waypoints)) =>
                  /\ log'.validated
                  /\ log'.outcome = "AssertionError"]_vars

\* the value 4 on the square failed the validation in obstacle_cb
C9_Witness ==
    /\ log.op = "obstacle_cb"
    /\ log.data = 4
    /\ waypoints = Square
    /\ log.outcome = "AssertionError"

\* C10: the stored traffic and obstacle indices are -1 or in [0, N).
C10_IndexInRange ==
    \A index \in {wp_traffic_light, wp_obstacle} :
        index = WP_UNDEFINED \/ (0 <= index /\ index < Len(waypoints))

\* the overlay step delivers an index of the loaded track
ValidIndexStep ==
    /\ OverlayStep
    /\ Len(waypoints) >= 1
    /\ 0 <= log'.data
    /\ log'.data < Len(waypoints)

\* C11: a traffic or obstacle update with an index in [0, N), N >= 1,
\* validates and stores the index and ends without an error.
C11_ValidIndexTotal ==
    [][ValidIndexStep =>
           /\ log'.validated
           /\ StoredIndex = log'.data
           /\ log'.outcome = "ok"]_vars

\* C12 as stated: once a track has been loaded, no later step, a further
\* track delivery included, changes it.
C12_TrackImmutable == [][Len(waypoints) >= 1 => waypoints' = waypoints]_vars

\* the smaller of two numbers
Min(a, b) == IF a < b THEN a ELSE b

\* C13: the pose history holds the last min(k, POSE_QUEUE_SIZE) accepted
\* poses in the order of their acceptance, k being the number of accepted
\* poses: an accepted pose becomes the newest entry, the entries before it
\* keep their order, the oldest is dropped when the history is full, and a
\* rejected pose leaves the history as it is.
C13_History ==
    [][PoseStep =>
           LET k == published
               full == Len(ego_pose_queue) = POSE_QUEUE_SIZE
               drop == IF full THEN 1 ELSE 0
           IN /\ Len(ego_pose_queue) = Min(k, POSE_QUEUE_SIZE)
              /\ IF Travelled >= MIN_UPDATE_DIST
                 THEN /\ published' = k + 1
                      /\ Len(ego_pose_queue') = Min(k + 1, POSE_QUEUE_SIZE)
                      /\ ego_pose_queue'[Len(ego_pose_queue')] = log'.pose
                      /\ \A i \in 1..(Len(ego_pose_queue') - 1) :
                             ego_pose_queue'[i] = ego_pose_queue[i + drop]
                 ELSE /\ published' = k
                      /\ ego_pose_queue' = ego_pose_queue]_vars

\* the 51st accepted pose of a run entered the full history after a pose
\* had been rejected: the first accepted pose is gone
C13_Witness ==
    /\ published = POSE_QUEUE_SIZE + 1
    /\ clock = published + 1
    /\ Len(ego_pose_queue) = POSE_QUEUE_SIZE
    /\ ego_pose_queue[POSE_QUEUE_SIZE] = ego_pose
    /\ ego_pose_queue[1].header.stamp \in {2, 3}
    /\ \E i \in 1..(POSE_QUEUE_SIZE - 1) :
           ego_pose_queue[i + 1].header.stamp
               = ego_pose_queue[i].header.stamp + 2

\* what the published windows of a run are computed from
WindowState ==
    <<ego_pose, ego_pose_queue, waypoints, final_waypoints, v_max, published>>

\* C14: the traffic and obstacle indices do not flow into the published
\* windows.  Two runs with the same track and the same poses publish the same
\* windows when every step keeps them in the same WindowState: a traffic or
\* obstacle update leaves WindowState as it is, and what a pose update does
\* to WindowState and what it publishes is a function of WindowState and of
\* the pose alone.
C14_OverlayDiagnostic ==
    [][/\ OverlayStep => UNCHANGED WindowState
       /\ PoseStep =>
              LET msg == log'.pose
                  pass == distance(get_position(msg), get_position(ego_pose))
                              >= MIN_UPDATE_DIST
                  r == publish_waypoints(waypoints, msg, final_waypoints)
              IN /\ UNCHANGED <<waypoints, v_max>>
                 /\ ego_pose' = IF pass THEN msg ELSE ego_pose
                 /\ ego_pose_queue' =
                        IF pass THEN deque_append(ego_pose_queue, msg)
                        ELSE ego_pose_queue
                 /\ final_waypoints' =
                        IF pass THEN r.final_waypoints ELSE final_waypoints
                 /\ published' =
                        IF pass /\ r.outcome = "ok" THEN published + 1
                        ELSE published
       /\ log'.op = "waypoints_cb" =>
              UNCHANGED <<ego_pose, ego_pose_queue, final_waypoints,
                          published>>]_vars

\* a second window was published while a traffic index and an obstacle
\* index of the track were stored
C14_Witness ==
    /\ Recomputed
    /\ published = 2
    /\ waypoints = Square
    /\ wp_traffic_light = 0
    /\ wp_obstacle = 0

\* the last handler run ended in a fatal failure: a failed assertion of
\* check_waypoint_index, of publish_waypoints or of get_position
FatalFailure == log.outcome = "AssertionError"

\* C15: after a fatal failure no pose update publishes a window; stated for
\* the step that follows the failed handler.
C15_FailFast == [][FatalFailure => published' = published]_vars

\* the last step was a call of get_position or get_orientation
ShapeCall == log.op \in {"get_position", "get_orientation"}

\* C16: for a stamped pose and for a waypoint get_position yields the
\* object's position and get_orientation its orientation; for an object of
\* any other type both end in the failed assertion and yield no value.
C16_Shapes ==
    ShapeCall =>
        IF log.type \in {"PoseStamped", "Waypoint"}
        THEN /\ log.op = "get_position" => log.result = log.position
             /\ log.op = "get_orientation" =>
                    log.result = Quaternion(log.yaw)
        ELSE /\ log.result = AssertionError
             /\ log.result # log.position
             /\ log.result # Quaternion(log.yaw)

\* get_orientation was called with a pose that has no header and failed
C16_Witness ==
    /\ ShapeCall
    /\ log.op = "get_orientation"
    /\ log.type = "Pose"
    /\ log.yaw = HALF_PI
    /\ log.result = AssertionError

\* C17: every published window is computed from one single track: its
\* entries are the waypoints of the track the node holds, in the order of
\* that track.
C17_SingleTrack ==
    [][published' # published =>
           /\ waypoints' = waypoints
           /\ \A i \in 1..LOOKAHEAD_WPS :
                  \E j \in 1..Len(waypoints) :
                      final_waypoints'.waypoints[i] = waypoints[j]
           /\ \A i \in 1..(LOOKAHEAD_WPS - 1) :
                  \E j \in 0..(Len(waypoints) - 1) :
                      /\ final_waypoints'.waypoints[i] = At(waypoints, j)
                      /\ final_waypoints'.waypoints[i + 1]
                             = At(waypoints, (j + 1) % Len(waypoints))]_vars

\* the pose update before this one passed the debounce test and failed on the
\* empty track, and the delivered pose is at its position
RetryAfterLoad ==
    /\ PoseStep
    /\ last_pose.accepted
    /\ ~last_pose.published
    /\ Len(waypoints) >= 1
    /\ get_position(log'.pose) = get_position(last_pose.pose)

\* C18: a pose update that fails on the empty track leaves the current pose
\* and the pose history as they were, and once the track is loaded a pose
\* update at the same position publishes a window.
C18_FailedPoseFrame ==
    [][/\ (PoseStep /\ log'.outcome = "AssertionError") =>
              UNCHANGED <<ego_pose, ego_pose_queue>>
       /\ RetryAfterLoad => published' = published + 1]_vars

\* some pose was accepted before the handled one
AcceptedBefore == Len(ego_pose_queue) >= 1

\* C19: a pose update is rejected only when an accepted pose lies within
\* MIN_UPDATE_DIST of it; the first pose update of a run is accepted.
C19_RejectedOnlyNearAccepted ==
    [][(PoseStep /\ log'.outcome = "return") =>
           /\ AcceptedBefore
           /\ distance(get_position(log'.pose),
                       get_position(ego_pose_queue[Len(ego_pose_queue)]))
                  < MIN_UPDATE_DIST]_vars

====
